---- MODULE Spec2Model ----
(***************************************************************************)
(* A model of src/app.py, the Streamlit chat client of a RAG backend.      *)
(*                                                                         *)
(* One execution of the script is one render pass.  st.session_state is    *)
(* modelled by the set `keys` of the keys it holds and one variable per    *)
(* key; the script's locals that outlive a backend call are variables      *)
(* too.  Widgets return values chosen by the user (\E over small sets).    *)
(* The backend URL only selects the server that is called and is left out. *)
(* The sidebar health section (lines 122-134) reads and writes nothing the *)
(* rest of the script uses; it is modelled as a machine of its own         *)
(* (SpecHealth).                                                           *)
(***************************************************************************)
EXTENDS Integers, Sequences, FiniteSets, TLC

VARIABLES
    keys,            \* the keys present in st.session_state
    top_k,           \* st.session_state.top_k (meaningful when its key is present)
    messages,        \* st.session_state.messages
    pending_input,   \* st.session_state["pending_input"] (when its key is present)
    pc,              \* where the script stands in the current exchange
    chat_value,      \* what st.chat_input returned in this pass (line 176)
    prompt_prefill,  \* local prompt_prefill (line 175)
    user_input,      \* local user_input after line 180
    before,          \* the value of messages when this pass began
    request,         \* the POST /query in flight: <<>> or <<payload>>
    resp,            \* local resp of _send_and_render (line 193)
    rendered,        \* what the assistant placeholder shows (lines 199, 206)
    answer,          \* local answer (line 195)
    follow_ups,      \* local follow_ups (line 197)
    pressed,         \* the button st.button reported pressed (line 85), 0 for none
    health_outcome,  \* what GET /health did in this pass
    health,          \* what _healthcheck gave (line 122)
    badge,           \* the sidebar badge (lines 126-134)
    hpc              \* where the sidebar health section stands

vars == <<keys, top_k, messages, pending_input, pc, chat_value, prompt_prefill,
          user_input, before, request, resp, rendered, answer,
          follow_ups, pressed, health_outcome, health, badge, hpc>>

chatVars == <<keys, top_k, messages, pending_input, pc, chat_value,
              prompt_prefill, user_input, before, request, resp, rendered,
              answer, follow_ups, pressed>>

healthVars == <<health_outcome, health, badge, hpc>>

----------------------------------------------------------------------------
(* Bounds of the model *)

\* submissions are accepted while messages is shorter than this
MaxMsgs == 7

\* the same, for the specification with fairness
MaxMsgsFair == 3

(* Program constants *)

HistoryLimit == 6
SliderMin == 1
SliderMax == 20
DefaultTopK == 5

\* Python's None, where a string is expected
None == "<None>"

FALLBACK_ANSWER == "No answer returned."

\* bool(x) of a str-or-None
Truthy(s) == s # None /\ s # ""

Max(a, b) == IF a >= b THEN a ELSE b

Last(s) == s[Len(s)]

IsPrefix(s, t) == Len(s) <= Len(t) /\ SubSeq(t, 1, Len(s)) = s

Message(role, content) == [role |-> role, content |-> content]

----------------------------------------------------------------------------
(* Inputs *)

\* texts the user types into st.chat_input
TypedInputs == {"What is product X?"}

\* values the user gives the Top K slider
TopKChoices == {SliderMin, SliderMax}

\* bodies of a 2xx answer of POST /query
Responses ==
    { [answer |-> "X is a tool.", follow_ups |-> <<"How much does X cost?", "Who makes X?">>],
      [answer |-> ""],
      [follow_ups |-> <<>>] }

\* what the POST raises: requests exceptions and raise_for_status
QueryErrors == {"Read timed out.", "500 Server Error"}

NoResp == [none |-> TRUE]
NoRender == [kind |-> "none", text |-> ""]

----------------------------------------------------------------------------
(* _post_query, lines 32-40 *)

\* history[:n], the oldest entries instead of the newest
LastN_first(history, n) == SubSeq(history, 1, IF Len(history) < n THEN Len(history) ELSE n)

\* history[-n:] of a Python list
LastN(history, n) == SubSeq(history, Max(Len(history) - n, 0) + 1, Len(history))

\* history[-6:] if history else None
PayloadHistory(history) ==
    IF history = <<>>
    THEN [null |-> TRUE, items |-> <<>>]
    ELSE [null |-> FALSE, items |-> LastN(history, HistoryLimit)]

\* the JSON body of the POST
Payload(query_text, k, history) ==
    [query |-> query_text, top_k |-> k, history |-> PayloadHistory(history)]

----------------------------------------------------------------------------
(* The sidebar options and the input, lines 135-180 *)

\* a control that hands the given value back without looking at its range
SliderOutcomes_unchecked(lo, hi, value) ==
    {[raised |-> FALSE, value |-> v] : v \in TopKChoices \cup {value}}

\* st.slider("Top K", 1, 20, value): the user's value, or the given one when
\* the slider was not moved.  A given value outside [lo, hi] is rejected by
\* the widget (the pass ends with an exception) unless the user's value
\* replaces it.
SliderOutcomes(lo, hi, value) ==
    {[raised |-> FALSE, value |-> v] : v \in (TopKChoices \cup {value}) \cap (lo..hi)}
        \cup (IF value \in lo..hi THEN {} ELSE {[raised |-> TRUE, value |-> value]})

\* st.session_state.get in place of pop: the key stays
PopPending_get(ks) == ks

\* st.session_state.pop("pending_input", ""): the keys left
PopPending(ks) == ks \ {"pending_input"}

\* lines 177-180: the typed text wins, else the prefill
UserInput(prefill, typed) ==
    IF Truthy(prefill) /\ ~Truthy(typed) THEN prefill ELSE typed

----------------------------------------------------------------------------
(* _send_and_render, lines 183-206 *)

\* resp.get("answer", "No answer returned."): an empty answer is kept
AnswerOf_default(r) == IF "answer" \in DOMAIN r THEN r.answer ELSE FALLBACK_ANSWER

\* resp.get("answer") or "No answer returned."
AnswerOf(r) ==
    IF "answer" \in DOMAIN r /\ Truthy(r.answer) THEN r.answer ELSE FALLBACK_ANSWER

\* resp.get("follow_ups") or []
FollowUpsOf(r) == IF "follow_ups" \in DOMAIN r THEN r.follow_ups ELSE <<>>

\* the first follow-up stored whichever button was pressed
PressedText_first(fus, i) == fus[1]

\* line 86: the text stored for the button that was pressed
PressedText(fus, i) == fus[i]

\* the user message not yet appended when the request is built
MessagesOnSubmit_late(msgs, text) == msgs

\* line 184: the user message is appended before anything is sent
MessagesOnSubmit(msgs, text) == Append(msgs, Message("user", text))

\* the error stored as an assistant message
MessagesOnError_stored(msgs, e) ==
    Append(msgs, Message("assistant", "Request failed: " \o e))

\* the user message taken back when the call fails
MessagesOnError_rollback(msgs, e) == SubSeq(msgs, 1, Len(msgs) - 1)

\* lines 205-206: messages after the except branch
MessagesOnError(msgs, e) == msgs

\* line 204
MessagesOnAnswer(msgs, a) == Append(msgs, Message("assistant", a))

----------------------------------------------------------------------------
(* The state machine of the chat *)

InitHealthIdle ==
    /\ health_outcome = [kind |-> "none"]
    /\ health = [raised |-> FALSE, value |-> [status |-> "unknown"]]
    /\ badge = "none"
    /\ hpc = "start"

InitChat ==
    /\ keys = {}
    /\ top_k = 0
    /\ messages = <<>>
    /\ pending_input = ""
    /\ pc = "Idle"
    /\ chat_value = None
    /\ prompt_prefill = ""
    /\ user_input = None
    /\ before = <<>>
    /\ request = <<>>
    /\ resp = NoResp
    /\ rendered = NoRender
    /\ answer = None
    /\ follow_ups = <<>>
    /\ pressed = 0

Init == InitChat /\ InitHealthIdle

\* One execution of the script up to the backend call (lines 135-193, 209-210).
RenderPass(bound, typed) ==
    /\ pc = "Idle"
    /\ LET tk0 == IF "top_k" \in keys THEN top_k ELSE DefaultTopK
           msgs0 == IF "messages" \in keys THEN messages ELSE <<>>
           prefill == IF "pending_input" \in keys THEN pending_input ELSE ""
           ui == UserInput(prefill, typed)
       IN  \E s \in SliderOutcomes(SliderMin, SliderMax, tk0) :
             IF s.raised
             THEN /\ keys' = keys \cup {"top_k"}
                  /\ top_k' = tk0
                  /\ UNCHANGED <<messages, pending_input, pc, chat_value,
                                 prompt_prefill, user_input, before, request,
                                 resp, rendered, answer, follow_ups, pressed>>
             ELSE /\ Truthy(typed) => Len(msgs0) < bound
                  /\ top_k' = s.value
                  /\ keys' = PopPending(keys \cup {"top_k", "messages"})
                  /\ pending_input' = ""
                  /\ before' = msgs0
                  /\ rendered' = NoRender
                  /\ IF Truthy(ui)
                     THEN /\ messages' = MessagesOnSubmit(msgs0, ui)
                          /\ request' = <<Payload(ui, top_k', messages')>>
                          /\ chat_value' = typed
                          /\ prompt_prefill' = prefill
                          /\ user_input' = ui
                          /\ pc' = "AwaitingResponse"
                     ELSE /\ messages' = msgs0
                          /\ request' = <<>>
                          /\ chat_value' = None
                          /\ prompt_prefill' = ""
                          /\ user_input' = None
                          /\ pc' = "Idle"
                  /\ UNCHANGED <<resp, answer, follow_ups, pressed>>
    /\ UNCHANGED healthVars

\* The POST returns a 2xx body: lines 38-40, 194-201.
QuerySucceeds(r) ==
    /\ pc = "AwaitingResponse"
    /\ request' = <<>>
    /\ resp' = r
    /\ answer' = AnswerOf(r)
    /\ follow_ups' = FollowUpsOf(r)
    /\ rendered' = [kind |-> "answer", text |-> answer']
    /\ pc' = "RenderFollowups"
    /\ UNCHANGED <<keys, top_k, messages, pending_input, chat_value,
                   prompt_prefill, user_input, before, pressed>>
    /\ UNCHANGED healthVars

\* the failed call tried again by itself
QueryRaises_retry(e) ==
    /\ pc = "AwaitingResponse"
    /\ rendered' = [kind |-> "error", text |-> "Request failed: " \o e]
    /\ pc' = "AwaitingResponse"
    /\ UNCHANGED <<keys, top_k, messages, pending_input, chat_value,
                   prompt_prefill, user_input, before, request, resp, answer,
                   follow_ups, pressed>>
    /\ UNCHANGED healthVars

\* The POST raises: lines 38-39, 205-206.
QueryRaises(e) ==
    /\ pc = "AwaitingResponse"
    /\ request' = <<>>
    /\ rendered' = [kind |-> "error", text |-> "Request failed: " \o e]
    /\ messages' = MessagesOnError(messages, e)
    /\ pc' = "Failed"
    /\ UNCHANGED <<keys, top_k, pending_input, chat_value, prompt_prefill,
                   user_input, before, resp, answer, follow_ups, pressed>>
    /\ UNCHANGED healthVars

\* _render_followups, lines 78-86 (line 202): button i is pressed, or none (0).
RenderFollowups(bound, i) ==
    /\ pc = "RenderFollowups"
    /\ i > 0 => Len(messages) + 1 < bound
    /\ IF i > 0
       THEN /\ keys' = keys \cup {"pending_input"}
            /\ pending_input' = PressedText(follow_ups, i)
       ELSE UNCHANGED <<keys, pending_input>>
    /\ pressed' = i
    /\ pc' = "AppendAssistant"
    /\ UNCHANGED <<top_k, messages, chat_value, prompt_prefill, user_input,
                   before, request, resp, rendered, answer, follow_ups>>
    /\ UNCHANGED healthVars

\* line 204
AppendAssistant ==
    /\ pc = "AppendAssistant"
    /\ messages' = MessagesOnAnswer(messages, answer)
    /\ pc' = "Rendered"
    /\ UNCHANGED <<keys, top_k, pending_input, chat_value, prompt_prefill,
                   user_input, before, request, resp, rendered, answer,
                   follow_ups, pressed>>
    /\ UNCHANGED healthVars

\* The script ends; its locals are gone and the next input is awaited.
EndPass ==
    /\ pc \in {"Rendered", "Failed"}
    /\ pc' = "Idle"
    /\ chat_value' = None
    /\ prompt_prefill' = ""
    /\ user_input' = None
    /\ resp' = NoResp
    /\ answer' = None
    /\ follow_ups' = <<>>
    /\ pressed' = 0
    /\ UNCHANGED <<keys, top_k, messages, pending_input, before, request,
                   rendered>>
    /\ UNCHANGED healthVars

ChatNext(bound) ==
    \/ \E typed \in TypedInputs \cup {None} : RenderPass(bound, typed)
    \/ \E r \in Responses : QuerySucceeds(r)
    \/ \E e \in QueryErrors : QueryRaises(e)
    \/ \E i \in 0..Len(follow_ups) : RenderFollowups(bound, i)
    \/ AppendAssistant
    \/ EndPass

Next == ChatNext(MaxMsgs)

Spec == Init /\ [][Next]_vars

\* A session whose top_k was set out of range before the first pass.
InitManip ==
    /\ keys = {"top_k"}
    /\ top_k \in {-3, 0, 21, 100}
    /\ messages = <<>>
    /\ pending_input = ""
    /\ pc = "Idle"
    /\ chat_value = None
    /\ prompt_prefill = ""
    /\ user_input = None
    /\ before = <<>>
    /\ request = <<>>
    /\ resp = NoResp
    /\ rendered = NoRender
    /\ answer = None
    /\ follow_ups = <<>>
    /\ pressed = 0
    /\ InitHealthIdle

SpecManip == InitManip /\ [][Next]_vars

\* The script runs to its end, and the POST returns or raises within its
\* timeout of 120 s (line 38); nothing obliges the user to act.
NextFair == ChatNext(MaxMsgsFair)

BackendAnswers ==
    \/ \E r \in Responses : QuerySucceeds(r)
    \/ \E e \in QueryErrors : QueryRaises(e)

ScriptStep ==
    \/ \E i \in 0..Len(follow_ups) : RenderFollowups(MaxMsgsFair, i)
    \/ AppendAssistant
    \/ EndPass

FairSpec ==
    /\ Init
    /\ [][NextFair]_vars
    /\ WF_vars(BackendAnswers)
    /\ WF_vars(ScriptStep)

----------------------------------------------------------------------------
(* _healthcheck, lines 22-29, and the sidebar badge, lines 122-134 *)

\* what a Python call does: it returns a value or raises an exception
Return(v) == [raised |-> FALSE, value |-> v]
Raise(t, m) == [raised |-> TRUE, type |-> t, message |-> m]

\* status codes GET /health answers with
HealthCodes == {200, 304, 404, 503}

\* what resp.json() gives: the decoded body, or a decoding error
HealthJson ==
    { Return([status |-> "ok"]),
      Return([status |-> "missing_keys"]),
      Return([status |-> "error", detail |-> "index unavailable"]),
      Return([status |-> "starting"]),
      Return([detail |-> "no status field"]),
      Raise("JSONDecodeError", "Expecting value: line 1 column 1 (char 0)") }

\* what requests.get does: a response, or a transport exception
HealthOutcomes ==
    {[kind |-> "response", status_code |-> c, json |-> j] :
        c \in HealthCodes, j \in HealthJson}
    \cup {[kind |-> "exception", error |-> Raise("ConnectTimeout", "timed out")],
          [kind |-> "exception", error |-> Raise("ConnectionError", "connection refused")]}

\* requests' Response.ok: raise_for_status() would not raise
RespOk(c) == ~(400 <= c /\ c < 600)

\* f"HTTP {resp.status_code}"
HttpDetail(c) == "HTTP " \o ToString(c)

\* the body of the try, lines 24-27
HealthTry(o) ==
    IF o.kind = "exception" THEN o.error
    ELSE IF RespOk(o.status_code) THEN o.json
    ELSE Return([status |-> "error", detail |-> HttpDetail(o.status_code)])

\* `except requests.RequestException`: a decoding ValueError gets through
CaughtByExcept_requests(t) == t \in {"ConnectTimeout", "ConnectionError"}

\* `except Exception` catches every exception class the try can raise
CaughtByExcept(t) == TRUE

\* lines 22-29
Healthcheck(o) ==
    LET r == HealthTry(o)
    IN  IF r.raised /\ CaughtByExcept(r.type)
        THEN Return([status |-> "error", detail |-> r.message])
        ELSE r

\* lines 123-134
Badge(h) ==
    LET status == IF "status" \in DOMAIN h THEN h.status ELSE "unknown"
        detail == IF "detail" \in DOMAIN h THEN h.detail ELSE None
    IN  IF status = "ok" THEN "success: API healthy"
        ELSE IF status = "missing_keys" THEN "warning: API reachable - missing keys"
        ELSE IF status = "error"
             THEN (IF Truthy(detail) THEN "error: API error: " \o detail
                                     ELSE "error: API error")
        ELSE "warning: API status unknown"

\* requests.get(f"{url}/health", timeout=5) answers, raises or times out
HealthGet(o) ==
    /\ hpc \in {"start", "shown"}
    /\ health_outcome' = o
    /\ hpc' = "called"
    /\ UNCHANGED <<health, badge>>
    /\ UNCHANGED chatVars

\* lines 122-134: an exception leaving _healthcheck would end the pass
SidebarHealth ==
    /\ hpc = "called"
    /\ health' = Healthcheck(health_outcome)
    /\ IF health'.raised
       THEN /\ hpc' = "interrupted"
            /\ UNCHANGED badge
       ELSE /\ hpc' = "shown"
            /\ badge' = Badge(health'.value)
    /\ UNCHANGED health_outcome
    /\ UNCHANGED chatVars

HealthNext ==
    \/ \E o \in HealthOutcomes : HealthGet(o)
    \/ SidebarHealth

SpecHealth == Init /\ [][HealthNext]_vars

----------------------------------------------------------------------------
(* The claims *)

InFlight == request # <<>>

\* C1: when the backend call raises, messages is the sequence the pass began
\* with plus the one user message: one longer, no assistant message added.
C1_FailedKeepsOnlyUser ==
    pc = "Failed" =>
        /\ messages = Append(before, Message("user", user_input))
        /\ Len(messages) = Len(before) + 1
        /\ rendered.kind = "error"

C1_Witness ==
    /\ pc = "Failed"
    /\ Len(before) >= 2
    /\ Last(messages).role = "user"
    /\ rendered.text = "Request failed: Read timed out."

\* C2: the history field of a request never holds more than 6 entries, they
\* are the newest messages in their order, and for more than 6 messages
\* they are exactly the last 6.
C2_HistoryLastSix ==
    InFlight =>
        LET h == request[1].history.items
            n == Len(messages)
        IN  /\ Len(h) <= 6
            /\ Len(h) <= n
            /\ \A i \in 1..Len(h) : h[i] = messages[n - Len(h) + i]
            /\ n > 6 => Len(h) = 6
            /\ n <= 6 => Len(h) = n

C2_Witness ==
    /\ InFlight
    /\ Len(messages) > 6
    /\ Len(request[1].history.items) = 6
    /\ request[1].history.items[1] = messages[Len(messages) - 5]
    /\ request[1].history.items[1] # messages[1]

C5_AppendOnly ==
    /\ messages = <<>>
    /\ [][IsPrefix(messages, messages')]_vars

C5_Witness ==
    /\ pc = "Idle"
    /\ Len(messages) >= 5
    /\ \E i \in 1..(Len(messages) - 1) :
         messages[i].role = "user" /\ messages[i + 1].role = "user"
    /\ \E i \in 1..Len(messages) : messages[i].role = "assistant"

\* C6: after a successful exchange the assistant message stored last is the
\* rendered answer, and it is the fallback when the response has no answer
\* or an empty one.
C6_StoredIsRendered ==
    pc = "Rendered" =>
        /\ rendered.kind = "answer"
        /\ messages = Append(Append(before, Message("user", user_input)),
                             Message("assistant", rendered.text))
        /\ ("answer" \notin DOMAIN resp \/ resp.answer = "") =>
               rendered.text = "No answer returned."
        /\ ("answer" \in DOMAIN resp /\ resp.answer # "") =>
               rendered.text = resp.answer

C6_Witness ==
    /\ pc = "Rendered"
    /\ "answer" \notin DOMAIN resp
    /\ Last(messages) = Message("assistant", "No answer returned.")

C6_WitnessEmpty ==
    /\ pc = "Rendered"
    /\ "answer" \in DOMAIN resp
    /\ resp.answer = ""
    /\ Last(messages) = Message("assistant", "No answer returned.")

C7_WitnessMalformed ==
    /\ hpc = "shown"
    /\ health_outcome.kind = "response"
    /\ health_outcome.status_code = 200
    /\ health_outcome.json.raised
    /\ health.value.status = "error"

PcSteps ==
    {<<"Idle", "Idle">>, <<"Idle", "AwaitingResponse">>,
     <<"AwaitingResponse", "RenderFollowups">>, <<"AwaitingResponse", "Failed">>,
     <<"RenderFollowups", "AppendAssistant">>, <<"AppendAssistant", "Rendered">>,
     <<"Rendered", "Idle">>, <<"Failed", "Idle">>}

C9_ExchangeLifecycle ==
    /\ [][(<<pc, pc'>> \in PcSteps)]_vars
    /\ (pc = "AwaitingResponse") ~> (pc \in {"Rendered", "Failed"})
    /\ (pc \in {"Rendered", "Failed"}) ~> (pc = "Idle")
    /\ [][pc = "Failed" => (pc' = "Idle" /\ request' = <<>> /\ messages' = messages)]_vars
    /\ [][(request = <<>> /\ request' # <<>>) =>
            /\ pc = "Idle"
            /\ Truthy(user_input')
            /\ user_input' \in {chat_value', pending_input}
            /\ request'[1].query = user_input']_vars
    /\ [](InFlight <=> pc = "AwaitingResponse")

C9_Witness ==
    /\ pc = "Rendered"
    /\ Len(messages) = 3
    /\ messages[1].role = "user"
    /\ messages[2].role = "user"
    /\ messages[3].role = "assistant"

\* C10: while a request is in flight the last message is the user message of
\* its query, it is the last entry of the request's history, and nothing was
\* appended after it.
C10_UserMessageFirst ==
    InFlight =>
        /\ messages # <<>>
        /\ messages = Append(before, Message("user", request[1].query))
        /\ ~request[1].history.null
        /\ request[1].history.items # <<>>
        /\ Last(request[1].history.items) = Message("user", request[1].query)

C10_Witness ==
    /\ InFlight
    /\ Len(messages) >= 3
    /\ request[1].query = "What is product X?"
    /\ Last(request[1].history.items) = Message("user", "What is product X?")

====
